---- MODULE Spec2Model ----
(***************************************************************************)
(* A model of the "loop over rows" service: the direct variant             *)
(* (modal_apps/loop_over_rows_fastapi_app.py) and the proxying variant     *)
(* (modal_apps/loop_over_rows_frontand_unified.py).                        *)
(*                                                                         *)
(* Texts (model replies) are sequences of lexemes.  JSON values are tagged *)
(* tuples: <<"int", n>>, <<"float", tenths>>, <<"bool", b>>, <<"null">>,   *)
(* <<"str", lexemes>>, <<"list", values>>, <<"dict", f>> with f a function *)
(* from keys (sequences of lexemes) to values.  Python's None is           *)
(* <<"none">>.                                                             *)
(***************************************************************************)
EXTENDS Integers, Sequences, FiniteSets, TLC

(***************************************************************************)
(* Lexemes                                                                 *)
(***************************************************************************)
\* The lexeme of three backticks.
Fence == "FENCE"
Label == "json"
NL    == "\n"
Quote == "\""

None == <<"none">>
JNull == <<"null">>
JInt(n) == <<"int", n>>
JFloat(tenths) == <<"float", tenths>>
JBool(b) == <<"bool", b>>
JStr(s) == <<"str", s>>
JList(l) == <<"list", l>>
JDict(f) == <<"dict", f>>
EmptyDict == JDict(<<>>)

\* The scalar lexemes json.loads accepts, with the value each denotes.
Scalar ==
  ("1" :> JInt(1)) @@ ("2" :> JInt(2)) @@ ("5" :> JInt(5)) @@ ("40" :> JInt(40)) @@
  ("50" :> JInt(50)) @@ ("60" :> JInt(60)) @@ ("79" :> JInt(79)) @@
  ("80" :> JInt(80)) @@ ("90" :> JInt(90)) @@ ("150" :> JInt(150)) @@
  ("-5" :> JInt(-5)) @@ ("85.5" :> JFloat(855)) @@ ("9.9" :> JFloat(99)) @@
  ("true" :> JBool(TRUE)) @@ ("false" :> JBool(FALSE)) @@ ("null" :> JNull)

(***************************************************************************)
(* str.strip, the "in" test and str.split on texts                         *)
(***************************************************************************)
IsWs(c) == c = NL

RECURSIVE LStrip(_)
LStrip(s) == IF s # <<>> /\ IsWs(Head(s)) THEN LStrip(Tail(s)) ELSE s

RECURSIVE RStrip(_)
RStrip(s) ==
  IF s # <<>> /\ IsWs(s[Len(s)]) THEN RStrip(SubSeq(s, 1, Len(s) - 1)) ELSE s

Strip(s) == RStrip(LStrip(s))

\* The index of the first occurrence of p in s at or after i, 0 when none.
RECURSIVE Find(_, _, _)
Find(s, p, i) ==
  IF i + Len(p) - 1 > Len(s) THEN 0
  ELSE IF SubSeq(s, i, i + Len(p) - 1) = p THEN i
  ELSE Find(s, p, i + 1)

Contains(s, p) == Find(s, p, 1) # 0

RECURSIVE Split(_, _)
Split(s, p) ==
  LET k == Find(s, p, 1) IN
  IF k = 0 THEN <<s>>
  ELSE <<SubSeq(s, 1, k - 1)>> \o Split(SubSeq(s, k + Len(p), Len(s)), p)

(***************************************************************************)
(* json.loads                                                              *)
(***************************************************************************)
Fail == [ok |-> FALSE, val |-> JNull, pos |-> 0]
Ok(v, p) == [ok |-> TRUE, val |-> v, pos |-> p]

RECURSIVE SkipWs(_, _)
SkipWs(s, i) == IF i <= Len(s) /\ IsWs(s[i]) THEN SkipWs(s, i + 1) ELSE i

\* s[i] is the opening quote; a control character inside the string is an error.
ParseString(s, i) ==
  LET j == Find(s, <<Quote>>, i + 1) IN
  IF j = 0 \/ Contains(SubSeq(s, i + 1, j - 1), <<NL>>) THEN Fail
  ELSE Ok(JStr(SubSeq(s, i + 1, j - 1)), j + 1)

RECURSIVE ParseValue(_, _), ParseMembers(_, _, _), ParseElements(_, _, _)
ParseValue(s, i) ==
  IF i > Len(s) THEN Fail
  ELSE IF s[i] = "{" THEN
    LET j == SkipWs(s, i + 1) IN
    IF j <= Len(s) /\ s[j] = "}" THEN Ok(EmptyDict, j + 1)
    ELSE ParseMembers(s, j, <<>>)
  ELSE IF s[i] = "[" THEN
    LET j == SkipWs(s, i + 1) IN
    IF j <= Len(s) /\ s[j] = "]" THEN Ok(JList(<<>>), j + 1)
    ELSE ParseElements(s, j, <<>>)
  ELSE IF s[i] = Quote THEN ParseString(s, i)
  ELSE IF s[i] \in DOMAIN Scalar THEN Ok(Scalar[s[i]], i + 1)
  ELSE Fail

\* The members of an object from position i on; a repeated key keeps the last value.
ParseMembers(s, i, acc) ==
  IF i > Len(s) \/ s[i] # Quote THEN Fail
  ELSE
    LET k == ParseString(s, i) IN
    IF ~k.ok THEN Fail
    ELSE
      LET c == SkipWs(s, k.pos) IN
      IF c > Len(s) \/ s[c] # ":" THEN Fail
      ELSE
        LET v == ParseValue(s, SkipWs(s, c + 1)) IN
        IF ~v.ok THEN Fail
        ELSE
          LET acc2 == (k.val[2] :> v.val) @@ acc
              e == SkipWs(s, v.pos)
          IN IF e > Len(s) THEN Fail
             ELSE IF s[e] = "}" THEN Ok(JDict(acc2), e + 1)
             ELSE IF s[e] = "," THEN ParseMembers(s, SkipWs(s, e + 1), acc2)
             ELSE Fail

ParseElements(s, i, acc) ==
  LET v == ParseValue(s, i) IN
  IF ~v.ok THEN Fail
  ELSE
    LET acc2 == Append(acc, v.val)
        e == SkipWs(s, v.pos)
    IN IF e > Len(s) THEN Fail
       ELSE IF s[e] = "]" THEN Ok(JList(acc2), e + 1)
       ELSE IF s[e] = "," THEN ParseElements(s, SkipWs(s, e + 1), acc2)
       ELSE Fail

\* json.loads(txt): one value, whitespace around it, nothing after it.
JsonLoads(txt) ==
  LET v == ParseValue(txt, SkipWs(txt, 1)) IN
  IF v.ok /\ SkipWs(txt, v.pos) > Len(txt) THEN v ELSE Fail

(***************************************************************************)
(* json.dumps                                                              *)
(***************************************************************************)
RECURSIVE JsonDumps(_), DumpsElements(_), DumpsMembers(_)
JsonDumps(v) ==
  CASE v[1] = "str" -> <<Quote>> \o v[2] \o <<Quote>>
    [] v[1] = "list" -> <<"[">> \o DumpsElements(v[2]) \o <<"]">>
    [] v[1] = "dict" -> <<"{">> \o DumpsMembers(v[2]) \o <<"}">>
    [] OTHER -> <<CHOOSE t \in DOMAIN Scalar : Scalar[t] = v>>

DumpsElements(l) ==
  IF l = <<>> THEN <<>>
  ELSE JsonDumps(Head(l))
       \o (IF Len(l) > 1 THEN <<",">> \o DumpsElements(Tail(l)) ELSE <<>>)

DumpsMembers(f) ==
  IF DOMAIN f = {} THEN <<>>
  ELSE
    LET k == CHOOSE x \in DOMAIN f : TRUE
        rest == [x \in DOMAIN f \ {k} |-> f[x]]
    IN <<Quote>> \o k \o <<Quote, ":">> \o JsonDumps(f[k])
       \o (IF DOMAIN rest # {} THEN <<",">> \o DumpsMembers(rest) ELSE <<>>)

(***************************************************************************)
(* The reply of model.generate_content and the text taken from it          *)
(***************************************************************************)
Raised == <<"raise">>
Text(t) == <<"text", t>>

\* A slip: an empty reply is not replaced by the text of the empty object.
ReplyTextNoDefault(reply) == Strip(reply[2])

\* (resp.text or "{}").strip()
ReplyText(reply) == Strip(IF reply[2] = <<>> THEN <<"{", "}">> ELSE reply[2])

\* if the fence is in txt: the body of the first json-labelled fence, else of the first fence
StripFences(txt) ==
  IF ~Contains(txt, <<Fence>>) THEN txt
  ELSE
    LET a == Split(txt, <<Fence, Label>>) IN
    IF Len(a) >= 2 THEN Split(a[2], <<Fence>>)[1]
    ELSE
      LET b == Split(txt, <<Fence>>) IN
      IF Len(b) >= 2 THEN Split(b[2], <<Fence>>)[1] ELSE txt

\* The value json.loads gives for a reply text, or a failure.
ParseReply(reply) == JsonLoads(StripFences(ReplyText(reply)))

(***************************************************************************)
(* Per-item work: run_row (row mode), score and score_kw (score mode)      *)
(***************************************************************************)
RowKeyField == <<"row_key">>
OutputField == <<"output">>
RS == <<"RelevanceScore">>

\* obj.get(key, default) on a dict value
Get(obj, key, default) == IF key \in DOMAIN obj[2] THEN obj[2][key] ELSE default

\* if not isinstance(obj, dict): obj = {"output": obj}
WrapNonDict(v) == IF v[1] = "dict" THEN v ELSE JDict(OutputField :> v)

\* run_row for the row row_key, given what the model call did: None, or the
\* pair (row_key, obj).
run_row(row_key, reply) ==
  IF reply = Raised THEN None
  ELSE
    LET p == ParseReply(reply) IN
    IF ~p.ok THEN None ELSE <<"pair", row_key, WrapNonDict(p.val)>>

\* {"row_key": row_key, **obj}: a key of obj replaces the one written first.
RowResult(out) == JDict(out[3][2] @@ (RowKeyField :> JStr(<<out[2]>>)))

\* isinstance(score, (int, float)); a Python bool is an int.
IsNumber(v) == v[1] \in {"int", "float", "bool"}

\* The number a numeric value stands for, in tenths.
Tenths(v) ==
  CASE v[1] = "int" -> 10 * v[2]
    [] v[1] = "float" -> v[2]
    [] v[1] = "bool" -> IF v[2] THEN 10 ELSE 0

ScoreFloor == 10
ScoreCeil == 100

\* A slip: the upper limit is not applied.
ClampNoCeiling(v) ==
  LET hi == IF Tenths(v) > 10 * ScoreFloor THEN Tenths(v) ELSE 10 * ScoreFloor
  IN JInt(hi \div 10)

\* int(max(10, min(100, score)))
Clamp(v) ==
  LET lo == IF Tenths(v) < 10 * ScoreCeil THEN Tenths(v) ELSE 10 * ScoreCeil
      hi == IF lo > 10 * ScoreFloor THEN lo ELSE 10 * ScoreFloor
  IN JInt(hi \div 10)

\* score(kw) of the direct service: obj.get on a value that is no dict raises
\* and the item is dropped; a missing score counts as 0 and is clamped too.
score(reply) ==
  IF reply = Raised THEN None
  ELSE
    LET p == ParseReply(reply) IN
    IF ~p.ok \/ p.val[1] # "dict" THEN None
    ELSE
      LET sc == Get(p.val, RS, JInt(0)) IN
      IF IsNumber(sc) THEN JDict((RS :> Clamp(sc)) @@ p.val[2]) ELSE p.val

\* score_kw(kw) of the proxying service: a missing score is left missing.
score_kw(reply) ==
  IF reply = Raised THEN None
  ELSE
    LET p == ParseReply(reply) IN
    IF ~p.ok \/ p.val[1] # "dict" THEN None
    ELSE
      LET sc == Get(p.val, RS, None) IN
      IF IsNumber(sc) THEN JDict((RS :> Clamp(sc)) @@ p.val[2]) ELSE p.val

(***************************************************************************)
(* Score mode: the keywords taken and the two-tier filter                  *)
(***************************************************************************)
TestKeywords == 3
StrictThreshold == 80
RelaxedThreshold == 50
PlaceholderScore == 90

\* A slip: one keyword too many is taken in test mode.
TakeKeywordsOffByOne(keywords, test_mode) ==
  IF test_mode /\ Len(keywords) > TestKeywords + 1
  THEN SubSeq(keywords, 1, TestKeywords + 1) ELSE keywords

\* req.keywords[:3] if req.test_mode else req.keywords
TakeKeywords(keywords, test_mode) ==
  IF test_mode /\ Len(keywords) > TestKeywords
  THEN SubSeq(keywords, 1, TestKeywords) ELSE keywords

\* "if o": None and the empty dict are falsy.
Truthy(o) == o # None /\ o # EmptyDict

ScoreOf(o) == Get(o, RS, JInt(0))
\* o.get("RelevanceScore", 0) >= n, for a numeric score
AtLeast(o, n) == Tenths(ScoreOf(o)) >= 10 * n
Strict(o) == AtLeast(o, StrictThreshold)
Relaxed(o) == AtLeast(o, RelaxedThreshold)

\* The comparison of a score that is no number with 80 raises TypeError.
FilterRaises(raw) == \E k \in 1..Len(raw) : ~IsNumber(ScoreOf(raw[k]))

Placeholder(kw) ==
  JDict((<<"Keyword">> :> JStr(<<kw>>)) @@ (RS :> JInt(PlaceholderScore))
        @@ (<<"Rationale">> :> JStr(<<"Testmodus">>)))

\* A slip: the relaxed threshold is applied whether or not a candidate
\* reached the strict one.
FilterAlwaysRelaxed(raw, kws, test_mode) ==
  IF test_mode /\ SelectSeq(raw, Strict) = <<>>
  THEN [k \in 1..Len(kws) |-> Placeholder(kws[k])]
  ELSE SelectSeq(raw, Relaxed)

\* The direct service, lines 175-183: what it returns for the candidates raw.
FilterDirect(raw, kws, test_mode) ==
  LET results == SelectSeq(raw, Strict) IN
  IF results # <<>> THEN results
  ELSE IF test_mode THEN [k \in 1..Len(kws) |-> Placeholder(kws[k])]
  ELSE SelectSeq(raw, Relaxed)

\* The proxying service, lines 174-177: the strict filter alone.
FilterUnified(raw, kws, test_mode) == SelectSeq(raw, Strict)

(***************************************************************************)
(* Score mode: the company research reply                                  *)
(***************************************************************************)
CompanyUrl == "https://example.com/about"
CompanyHost == "example.com"

DefaultCompanyDirect == JDict(<<"company_name">> :> JStr(<<CompanyUrl>>))
DefaultCompanyUnified ==
  JDict((<<"company_name">> :> JStr(<<CompanyHost>>))
        @@ (<<"company_description">> :> JStr(<<"Unternehmen unter", CompanyUrl>>))
        @@ (<<"industry">> :> JStr(<<>>)) @@ (<<"target_market">> :> JStr(<<>>)))

\* try: company = json.loads(text) / except: the default object
Company(variant, reply) ==
  LET p == ParseReply(reply) IN
  IF p.ok THEN p.val
  ELSE IF variant = "direct" THEN DefaultCompanyDirect ELSE DefaultCompanyUnified

\* The research stage ends the request with an exception when the model call
\* raises (it is under no try) or when company.get is called on a value that
\* is no dict while the keyword template is built.
ResearchRaises(variant, reply) ==
  reply = Raised \/ Company(variant, reply)[1] # "dict"

(***************************************************************************)
(* Requests                                                                *)
(***************************************************************************)
MaxRows == 3
MaxFanout == 3
MaxTime == 1

\* Throttler(rate_limit=8, period=1.0); time is counted in seconds.
RateLimit == 8
Period == 1
DefaultBatchSize == 10

RowKeyOf == <<"r1", "r2", "r3", "r4", "r5", "r6", "r7", "r8", "r9", "r10">>
KeywordOf == <<"k1", "k2", "k3", "k4", "k5", "k6", "k7", "k8", "k9", "k10">>

FreestyleRequired == {"data", "headers", "prompt"}
FreestyleFields ==
  FreestyleRequired \cup {"batch_size", "enable_google_search", "test_mode", "mode"}
KombatRequired == {"keywords", "company_url"}
KombatFields ==
  KombatRequired \cup {"keyword_variable", "enable_google_search", "test_mode", "mode"}

\* A variant: the request model also wants batch_size positive.
FreestyleValidPositive(b) ==
  /\ FreestyleRequired \subseteq b.present /\ b.illtyped \cap FreestyleFields = {}
  /\ "batch_size" \in b.present => b.batch_size >= 1

\* FreestyleRequest(**body) and KeywordKombatRequest(**body) raise unless every
\* required field is present and every declared field given has its type.
FreestyleValid(b) ==
  FreestyleRequired \subseteq b.present /\ b.illtyped \cap FreestyleFields = {}
KombatValid(b) ==
  KombatRequired \subseteq b.present /\ b.illtyped \cap KombatFields = {}

KombatMode == <<"keyword-kombat">>

\* "x or y": None, the empty string, 0, false and empty containers are falsy.
Falsy(v) ==
  v \in {None, JNull, JStr(<<>>), JInt(0), JBool(FALSE), JList(<<>>), EmptyDict}

\* (body.get("mode") or "freestyle").strip(): "raise" when the value has no
\* strip method (a truthy value that is no string).
ModeOf(b) ==
  IF Falsy(b.mode) THEN <<"freestyle">>
  ELSE IF b.mode[1] = "str" THEN Strip(b.mode[2])
  ELSE <<"raise">>

Body(mode, present, illtyped, data, batch_size, keywords, test_mode) ==
  [mode |-> mode, present |-> present, illtyped |-> illtyped, data |-> data,
   batch_size |-> batch_size, keywords |-> keywords, test_mode |-> test_mode]

RowBody(mode, n, batch_size) ==
  Body(mode, FreestyleRequired \cup {"batch_size"}, {}, SubSeq(RowKeyOf, 1, n),
       batch_size, <<>>, FALSE)

ScoreBody(mode, n, test_mode) ==
  Body(mode, KombatRequired \cup {"test_mode", "mode"}, {}, <<>>,
       DefaultBatchSize, SubSeq(KeywordOf, 1, n), test_mode)

\* Replies of the upstream model.
SummaryOk == JDict(<<"summary">> :> JStr(<<"ok">>))
Scored(v) == JDict((<<"Keyword">> :> JStr(<<"kw">>)) @@ (RS :> v))
Acme == JDict(<<"company_name">> :> JStr(<<"ACME">>))
OneTwo == JList(<<JInt(1), JInt(2)>>)

Fenced(pre, label, v, post) ==
  pre \o <<Fence>> \o label \o <<NL>> \o JsonDumps(v) \o <<NL, Fence>> \o post

RowReplies ==
  { Raised,
    Text(<<"Sorry">>),
    Text(JsonDumps(SummaryOk)),
    Text(JsonDumps(OneTwo)),
    Text(JsonDumps(JDict(RowKeyField :> JStr(<<"zz">>)))) }

ScoreReplies ==
  { Raised,
    Text(<<"Sorry">>),
    Text(Fenced(<<>>, <<Label>>, Scored(JInt(90)), <<>>)),
    Text(JsonDumps(Scored(JInt(60)))),
    Text(JsonDumps(Scored(JInt(40)))),
    Text(JsonDumps(Scored(JStr(<<"high">>)))) }

ResearchReplies ==
  { Raised, Text(<<"Sorry">>), Text(JsonDumps(Acme)), Text(JsonDumps(OneTwo)) }

\* What the sibling service's platform may answer without running the request.
PlatformErrors == {404, 503}

VARIABLES
  req,      \* the requests in progress: id -> the handler's state
  now,      \* the clock, in seconds
  grants,   \* the times at which any throttler granted a permit, in order
  upstream, \* what the model may reply: [row, score, research -> set of replies],
            \* and stub: row key -> reply, for the rows a deterministic stub answers
  horizon   \* the last second of the run

vars == <<req, now, grants, upstream, horizon>>

NewRequest(variant, body) ==
  [variant |-> variant, body |-> body, pc |-> "received", hop |-> "none",
   i |-> 0, kws |-> <<>>, task |-> <<>>, reply |-> <<>>, calls |-> <<>>,
   outs |-> <<>>, slices |-> <<>>, results |-> <<>>, raw |-> <<>>,
   company |-> None, research |-> None, log |-> <<>>,
   sibling |-> 0, status |-> 0, response |-> None, start |-> 0]

Variants == {"direct", "unified"}

BatchSizes == {-1, 0, 1, 2, DefaultBatchSize}

\* Well-formed bodies with the usual mode values.
PlainBodies ==
  {RowBody(None, n, b) : n \in 0..MaxRows, b \in BatchSizes}
  \cup {ScoreBody(JStr(KombatMode), n, FALSE) : n \in 0..MaxFanout}
  \cup {ScoreBody(JStr(KombatMode), n, TRUE) : n \in 0..(MaxFanout + 1)}

\* Other mode values, missing fields and ill-typed fields, on one-item bodies.
OddModes ==
  {JStr(<<>>), JStr(<<"freestyle">>), JStr(<<"other">>),
   JStr(<<NL, "keyword-kombat", NL>>), JInt(5)}

OddBodies ==
  {[RowBody(m, 1, 1) EXCEPT !.present = @ \cup {"mode"}] : m \in OddModes}
  \cup {[RowBody(None, 1, 1) EXCEPT !.present = @ \ {f}] : f \in FreestyleRequired}
  \cup {[RowBody(None, 1, 1) EXCEPT !.illtyped = {f}] :
          f \in {"data", "batch_size", "keywords"}}
  \cup {[ScoreBody(JStr(KombatMode), 1, FALSE) EXCEPT !.present = @ \ {f}] :
          f \in KombatRequired}
  \cup {[ScoreBody(JStr(KombatMode), 1, FALSE) EXCEPT !.illtyped = {f}] :
          f \in {"keywords", "test_mode", "data"}}

Requests == {NewRequest(v, b) : v \in Variants, b \in PlainBodies \cup OddBodies}

Init ==
  /\ req \in [{1} -> Requests]
  /\ now = 0
  /\ grants = <<>>
  /\ upstream = [row |-> RowReplies, score |-> ScoreReplies,
                 research |-> ResearchReplies, stub |-> <<>>]
  /\ horizon = MaxTime

(***************************************************************************)
(* Responses                                                               *)
(***************************************************************************)
ErrorBody == [shape |-> "error"]

\* The proxying service, lines 98-102: an answer of the sibling other than 200
\* raises HTTPException(status_code=resp.status_code) inside the try whose
\* handler answers 500.
ProxyStatus(s) == IF s # 200 THEN 500 ELSE 200

\* The handler ends: the status and body the service in charge produced, and,
\* for a forwarded request, what the proxying service makes of them.
Finish(q, status, body) ==
  IF q.hop = "sibling"
  THEN [q EXCEPT !.pc = "done", !.sibling = status,
                 !.status = ProxyStatus(status),
                 !.response = IF ProxyStatus(status) = 200 THEN body ELSE ErrorBody]
  ELSE [q EXCEPT !.pc = "done", !.status = status, !.response = body]

\* raise HTTPException(status_code=..., detail=...), or an exception no
\* handler catches, which the framework answers with 500.
Error(q, status) == Finish(q, status, ErrorBody)

\* A slip: the items are counted, not the results.
RowsOutCountsItems(q) ==
  [shape |-> "rows", success |-> TRUE, results |-> q.results,
   processed_count |-> Len(q.body.data), total_count |-> Len(q.body.data)]

\* process_rows_freestyle's return value, which the direct service passes on.
RowsOut(q) ==
  [shape |-> "rows", success |-> TRUE, results |-> q.results,
   processed_count |-> Len(q.results), total_count |-> Len(q.body.data)]

\* ProcessingResponse / ProcessResponse of score mode.
ScoreOut(results, elapsed) ==
  [shape |-> "processing", results |-> results, processing_time |-> elapsed,
   items_processed |-> Len(results)]

Respond(q, body) == Finish(q, 200, body)

(***************************************************************************)
(* POST /process                                                           *)
(***************************************************************************)
\* The direct service: mode, then validation and dispatch under one try whose
\* handler answers 500.
ReceiveDirect(q) ==
  LET mode == ModeOf(q.body) IN
  IF mode = <<"raise">> THEN Error(q, 500)
  ELSE IF mode = KombatMode THEN
    IF KombatValid(q.body) THEN [q EXCEPT !.pc = "research"] ELSE Error(q, 500)
  ELSE
    IF FreestyleValid(q.body) THEN [q EXCEPT !.pc = "loop"] ELSE Error(q, 500)

\* The proxying service: score-mode validation is under no try; row-mode
\* validation answers 400 and the request is then forwarded.
ReceiveUnified(q) ==
  LET mode == ModeOf(q.body) IN
  IF mode = <<"raise">> THEN Error(q, 500)
  ELSE IF mode = KombatMode THEN
    IF KombatValid(q.body) THEN [q EXCEPT !.pc = "research"] ELSE Error(q, 500)
  ELSE
    IF FreestyleValid(q.body) THEN [q EXCEPT !.pc = "forward"] ELSE Error(q, 400)

Receive(r) ==
  /\ req[r].pc = "received"
  /\ req' = [req EXCEPT ![r] =
       LET n == Len(req[r].body.data)
           q == [req[r] EXCEPT !.start = now,
                               !.task = [j \in 1..n |-> "idle"],
                               !.reply = [j \in 1..n |-> None],
                               !.calls = [j \in 1..n |-> 0],
                               !.outs = [j \in 1..n |-> None]]
       IN IF q.variant = "direct" THEN ReceiveDirect(q) ELSE ReceiveUnified(q)]
  /\ UNCHANGED <<now, grants, upstream, horizon>>

\* The JSON the proxying service posts: five fields of the validated request;
\* no mode and no test_mode.
ForwardedBody(b) ==
  [b EXCEPT !.mode = None,
            !.present = FreestyleRequired \cup {"batch_size", "enable_google_search"},
            !.illtyped = {}, !.test_mode = FALSE]

\* requests.post(proxy_url, json=..., timeout=300): the call raises, the
\* platform answers with an error of its own, or the sibling (the direct
\* service) takes the request.
Forward(r) ==
  /\ req[r].pc = "forward"
  /\ \/ req' = [req EXCEPT ![r] = Error(@, 500)]
     \/ \E s \in PlatformErrors :
          req' = [req EXCEPT ![r] = Error([@ EXCEPT !.hop = "sibling"], s)]
     \/ req' = [req EXCEPT ![r] =
          LET q == @
              taken == ReceiveDirect([q EXCEPT !.hop = "sibling",
                                               !.body = ForwardedBody(q.body)])
          IN [taken EXCEPT !.body = q.body]]
  /\ UNCHANGED <<now, grants, upstream, horizon>>

(***************************************************************************)
(* The throttler (asyncio_throttle.Throttler), one per invocation          *)
(***************************************************************************)
\* flush(): forget the grants older than the period.
RECURSIVE Flush(_, _)
Flush(log, t) ==
  IF log # <<>> /\ t - Head(log) > Period THEN Flush(Tail(log), t) ELSE log

\* acquire() goes on when fewer than rate_limit grants are remembered.
CanAcquire(log, t) == Len(Flush(log, t)) < RateLimit

Acquired(log, t) == Append(Flush(log, t), t)

(***************************************************************************)
(* Score mode: process_keyword_kombat / _process_keyword_kombat            *)
(***************************************************************************)
\* The research call and the keyword template.  The throttler is new, so the
\* permit is granted at once.
Research(r) ==
  /\ req[r].pc = "research"
  /\ \E reply \in upstream.research :
       req' = [req EXCEPT ![r] =
         LET q == [req[r] EXCEPT !.log = Acquired(@, now), !.research = reply] IN
         IF ResearchRaises(q.variant, reply) THEN Error(q, 500)
         ELSE [q EXCEPT !.company = Company(q.variant, reply), !.pc = "fanout"]]
  /\ grants' = Append(grants, now)
  /\ UNCHANGED <<now, upstream, horizon>>

\* kws = ...; asyncio.gather(*[score(k) for k in kws]) creates one task per
\* keyword taken.
StartFanout(r) ==
  /\ req[r].pc = "fanout"
  /\ req' = [req EXCEPT ![r] =
       LET kws == TakeKeywords(req[r].body.keywords, req[r].body.test_mode) IN
       [req[r] EXCEPT !.kws = kws, !.pc = "gather",
                 !.slices = Append(@, <<1, Len(kws)>>),
                 !.task = [j \in 1..Len(kws) |-> "created"],
                 !.reply = [j \in 1..Len(kws) |-> None],
                 !.calls = [j \in 1..Len(kws) |-> 0],
                 !.outs = [j \in 1..Len(kws) |-> None]]]
  /\ UNCHANGED <<now, grants, upstream, horizon>>

IsScore(q) == ModeOf(q.body) = KombatMode

\* The items of the slice that asyncio.gather is waiting for.
CurSlice(q) ==
  LET c == q.slices[Len(q.slices)] IN c[1]..c[2]

\* What model.generate_content may do for item j: anything the upstream model
\* may do, or, for a row a deterministic stub answers, what the stub does.
RepliesFor(q, j) ==
  IF IsScore(q) THEN upstream.score
  ELSE IF q.body.data[j] \in DOMAIN upstream.stub THEN {upstream.stub[q.body.data[j]]}
  ELSE upstream.row

\* A slip: an item whose call or extraction failed is tried again.
TaskStepRetry(r, j) ==
  /\ req[r].pc = "gather"
  /\ j \in CurSlice(req[r])
  /\ req[r].task[j] \in {"created", "sleeping"}
  /\ CanAcquire(req[r].log, now)
  /\ \E reply \in RepliesFor(req[r], j) :
       req' = [req EXCEPT ![r] =
         LET q == @
             out == IF ~IsScore(q) THEN run_row(q.body.data[j], reply)
                    ELSE IF q.variant = "direct" THEN score(reply)
                    ELSE score_kw(reply)
         IN [q EXCEPT !.log = Acquired(q.log, now),
                      !.task[j] = IF out = None /\ q.calls[j] = 0 THEN "created" ELSE "done",
                      !.reply[j] = reply,
                      !.calls[j] = @ + 1,
                      !.outs[j] = out]]
  /\ grants' = Append(grants, now)
  /\ UNCHANGED <<now, upstream, horizon>>

\* One task runs from where it stands to its next suspension: the throttler's
\* acquire loop, and once the permit is granted the model call (which blocks
\* the event loop), the extraction and the task's result.  With no permit the
\* task sleeps and tries again later.
TaskStep(r, j) ==
  /\ req[r].pc = "gather"
  /\ j \in CurSlice(req[r])
  /\ req[r].task[j] \in {"created", "sleeping"}
  /\ IF CanAcquire(req[r].log, now)
     THEN /\ \E reply \in RepliesFor(req[r], j) :
               req' = [req EXCEPT ![r] =
                 LET q == @ IN
                 [q EXCEPT !.log = Acquired(q.log, now),
                           !.task[j] = "done",
                           !.reply[j] = reply,
                           !.calls[j] = @ + 1,
                           !.outs[j] =
                             IF ~IsScore(q) THEN run_row(q.body.data[j], reply)
                             ELSE IF q.variant = "direct" THEN score(reply)
                             ELSE score_kw(reply)]]
          /\ grants' = Append(grants, now)
     ELSE /\ req' = [req EXCEPT ![r].log = Flush(@, now), ![r].task[j] = "sleeping"]
          /\ UNCHANGED grants
  /\ UNCHANGED <<now, upstream, horizon>>

(***************************************************************************)
(* Row mode: process_rows_freestyle                                        *)
(***************************************************************************)
BatchSize(b) == IF "batch_size" \in b.present THEN b.batch_size ELSE DefaultBatchSize

\* range(0, len(items), batch_size) still has the value i to give.
InRange(i, n, step) == IF step > 0 THEN i < n ELSE i > n

\* A slip: the slice is one item longer than batch_size.
BatchOfOneMore(i, n, step) == <<i + 1, IF i + step + 1 < n THEN i + step + 1 ELSE n>>

\* items[i:i+batch_size], as the first and last position (from 1) of the slice.
BatchOf(i, n, step) == <<i + 1, IF i + step < n THEN i + step ELSE n>>

\* The head of the for loop: range() raises on a zero step; the next slice is
\* cut and one task per item is created; or the loop is over and the function
\* returns.
LoopHead(r) ==
  /\ req[r].pc = "loop"
  /\ req' = [req EXCEPT ![r] =
       LET q == @
           n == Len(q.body.data)
           step == BatchSize(q.body)
       IN IF step = 0 THEN Error(q, 500)
          ELSE IF InRange(q.i, n, step) THEN
            LET b == BatchOf(q.i, n, step) IN
            [q EXCEPT !.pc = "gather", !.slices = Append(@, b),
                      !.task = [j \in 1..n |->
                                  IF j \in b[1]..b[2] THEN "created" ELSE q.task[j]]]
          ELSE Respond(q, RowsOut(q))]
  /\ UNCHANGED <<now, grants, upstream, horizon>>

\* A slip: the wait ends with the first task of the slice that ends.
GatherAnyDone(q) == \E j \in CurSlice(q) : q.task[j] = "done"

\* A slip: the wait is for the first task of the slice only.
GatherHeadDone(q) == q.task[q.slices[Len(q.slices)][1]] = "done"

\* asyncio.gather returns when every task of the slice has ended.
GatherDone(q) == \A j \in CurSlice(q) : q.task[j] = "done"

\* A slip: a failed item makes the whole slice yield nothing.
AppendedAllOrNothing(outs, lo, hi) ==
  IF \E j \in lo..hi : outs[j] = None THEN <<>>
  ELSE [k \in 1..(hi - lo + 1) |-> RowResult(outs[lo + k - 1])]

\* A slip: the results of a slice are collected last task first.
RECURSIVE AppendedBackwards(_, _, _)
AppendedBackwards(outs, lo, hi) ==
  IF lo > hi THEN <<>>
  ELSE (IF outs[hi] = None THEN <<>> ELSE <<RowResult(outs[hi])>>)
       \o AppendedBackwards(outs, lo, hi - 1)

\* for out in outs: skip None, append {"row_key": row_key, **obj}
RECURSIVE Appended(_, _, _)
Appended(outs, lo, hi) ==
  IF lo > hi THEN <<>>
  ELSE (IF outs[lo] = None THEN <<>> ELSE <<RowResult(outs[lo])>>)
       \o Appended(outs, lo + 1, hi)

\* The candidates of score mode: [o for o in outs if o]
Candidates(outs) == SelectSeq(outs, Truthy)

Filter(variant, raw, kws, test_mode) ==
  IF variant = "direct" THEN FilterDirect(raw, kws, test_mode)
  ELSE FilterUnified(raw, kws, test_mode)

\* gather has returned.  Row mode: the results of the slice are appended and
\* the loop goes on.  Score mode: the filter, and the response.
Collect(r) ==
  /\ req[r].pc = "gather"
  /\ GatherDone(req[r])
  /\ req' = [req EXCEPT ![r] =
       LET q == @
           c == q.slices[Len(q.slices)]
       IN IF ~IsScore(q)
          THEN [q EXCEPT !.results = @ \o Appended(q.outs, c[1], c[2]),
                         !.i = @ + BatchSize(q.body), !.pc = "loop"]
          ELSE
            LET raw == Candidates(q.outs) IN
            IF FilterRaises(raw) THEN Error([q EXCEPT !.raw = raw], 500)
            ELSE
              LET results == Filter(q.variant, raw, q.kws, q.body.test_mode) IN
              Respond([q EXCEPT !.raw = raw, !.results = results],
                      ScoreOut(results, now - q.start))]
  /\ UNCHANGED <<now, grants, upstream, horizon>>

\* Time passes.
Tick ==
  /\ now < horizon
  /\ now' = now + 1
  /\ UNCHANGED <<req, grants, upstream, horizon>>

Next ==
  \/ \E r \in DOMAIN req : Receive(r)
  \/ \E r \in DOMAIN req : Forward(r)
  \/ \E r \in DOMAIN req : Research(r)
  \/ \E r \in DOMAIN req : StartFanout(r)
  \/ \E r \in DOMAIN req : LoopHead(r)
  \/ \E r \in DOMAIN req : \E j \in DOMAIN req[r].task : TaskStep(r, j)
  \/ \E r \in DOMAIN req : Collect(r)
  \/ Tick

Spec == Init /\ [][Next]_vars

(***************************************************************************)
(* One-item requests against a wide repertoire of replies                  *)
(***************************************************************************)
\* JSON objects a reply may carry.
Objects ==
  { EmptyDict,
    SummaryOk,
    Acme,
    JDict((<<"a">> :> JInt(1)) @@ (<<"b">> :> JNull)),
    JDict(<<"list">> :> OneTwo),
    JDict(<<"inner">> :> SummaryOk),
    JDict(<<"code">> :> JStr(<<Fence>>)),
    JDict(<<"code">> :> JStr(<<Fence, Label, "x", Fence>>)) }

Prologues == {<<>>, <<"Here", "it", "is", NL>>}
Epilogues == {<<>>, <<NL, "Bye">>}
Labels == {<<>>, <<Label>>}

FencedReplies ==
  {Text(Fenced(pre, lab, o, post)) :
     pre \in Prologues, lab \in Labels, o \in Objects, post \in Epilogues}

WideRowReplies ==
  FencedReplies
  \cup {Raised, Text(<<>>), Text(<<NL, NL>>), Text(<<"Sorry">>),
        Text(JsonDumps(OneTwo)), Text(<<NL>> \o JsonDumps(SummaryOk) \o <<NL>>),
        Text(JsonDumps(JInt(5))), Text(JsonDumps(JStr(<<"ok">>))), Text(<<"null">>),
        Text(<<Fence, Label, NL, "Sorry", Fence>>), Text(<<Fence>>)}

ScoreValues ==
  {JInt(90), JInt(80), JInt(79), JInt(50), JInt(40), JInt(150), JInt(-5),
   JFloat(855), JFloat(99), JBool(TRUE), JNull, JStr(<<"high">>), OneTwo}

WideScoreReplies ==
  {Text(JsonDumps(Scored(v))) : v \in ScoreValues}
  \cup {Text(Fenced(<<>>, <<Label>>, Scored(v), <<>>)) : v \in {JInt(90), JInt(150)}}
  \cup {Raised, Text(<<>>), Text(<<"Sorry">>), Text(JsonDumps(OneTwo)),
        Text(JsonDumps(JInt(90))), Text(JsonDumps(EmptyDict)),
        Text(JsonDumps(JDict(<<"Keyword">> :> JStr(<<"kw">>))))}

WideResearchReplies ==
  ResearchReplies \cup {Text(<<>>), Text(JsonDumps(JInt(5))), Text(JsonDumps(EmptyDict)),
                        Text(Fenced(<<>>, <<Label>>, Acme, <<>>))}

OneItemRequests ==
  {NewRequest(v, RowBody(None, 1, 1)) : v \in Variants}
  \cup {NewRequest(v, ScoreBody(JStr(KombatMode), 1, t)) : v \in Variants, t \in BOOLEAN}

InitReplies ==
  /\ req \in [{1} -> OneItemRequests]
  /\ now = 0
  /\ grants = <<>>
  /\ upstream = [row |-> WideRowReplies, score |-> WideScoreReplies,
                 research |-> WideResearchReplies, stub |-> <<>>]
  /\ horizon = MaxTime

SpecReplies == InitReplies /\ [][Next]_vars

(***************************************************************************)
(* Two requests at once, each invocation with a throttler of its own       *)
(***************************************************************************)
ThrottleTime == 2
BusyBatch == 4

BusyRequest == NewRequest("direct", RowBody(None, RateLimit, BusyBatch))

SmallRequests ==
  {NewRequest(v, RowBody(None, 1, 1)) : v \in Variants}
  \cup {NewRequest(v, ScoreBody(JStr(KombatMode), 1, FALSE)) : v \in Variants}

InitThrottle ==
  /\ req \in {[r \in {1, 2} |-> IF r = 1 THEN BusyRequest ELSE q] : q \in SmallRequests}
  /\ now = 0
  /\ grants = <<>>
  /\ upstream = [row |-> {Text(JsonDumps(SummaryOk))},
                 score |-> {Text(JsonDumps(Scored(JInt(90))))},
                 research |-> {Text(JsonDumps(Acme))}, stub |-> <<>>]
  /\ horizon = ThrottleTime

SpecThrottle == InitThrottle /\ [][Next]_vars

(***************************************************************************)
(* The same request run twice against a deterministic stub model client    *)
(***************************************************************************)
\* What the stub does for a row: it raises, or replies prose or an object.
StubReplies == {Raised, Text(<<"Sorry">>), Text(JsonDumps(SummaryOk))}

Stubs == [{RowKeyOf[j] : j \in 1..MaxRows} -> StubReplies]

TwiceRequests ==
  {NewRequest("direct", RowBody(None, n, b)) : n \in 1..MaxRows, b \in {1, 2, DefaultBatchSize}}
  \cup {NewRequest("unified", RowBody(None, 2, 2)),
        NewRequest("direct", ScoreBody(JStr(KombatMode), 1, FALSE))}

InitStub ==
  /\ req \in {[r \in {1, 2} |-> q] : q \in TwiceRequests}
  /\ now = 0
  /\ grants = <<>>
  /\ \E f \in Stubs :
       upstream = [row |-> {}, score |-> {Text(JsonDumps(Scored(JInt(90))))},
                   research |-> {Text(JsonDumps(Acme))}, stub |-> f]
  /\ horizon = MaxTime

SpecStub == InitStub /\ [][Next]_vars

(***************************************************************************)
(* Properties                                                              *)
(***************************************************************************)
Done(q) == q.pc = "done"
Answered(q) == Done(q) /\ q.status = 200
RowMode(q) == ModeOf(q.body) # <<"raise">> /\ ~IsScore(q)
Min(a, b) == IF a < b THEN a ELSE b

\* The keys of the request's rows mapping, as JSON strings.
RequestKeys(q) == {JStr(<<q.body.data[j]>>) : j \in 1..Len(q.body.data)}

\* The relevance score of a returned item is an integer within lo..hi.
ScoreWithin(item, lo, hi) ==
  /\ RS \in DOMAIN item[2]
  /\ item[2][RS][1] = "int"
  /\ item[2][RS][2] >= lo
  /\ item[2][RS][2] <= hi

\* C1: in row mode, processed_count <= total_count and the row_key field of
\* every returned row object is a key of the request's rows mapping.
C1_RowKeysFromRequest ==
  \A r \in DOMAIN req :
    (Answered(req[r]) /\ RowMode(req[r])) =>
      LET out == req[r].response IN
      /\ out.processed_count <= out.total_count
      /\ \A k \in 1..Len(out.results) :
           out.results[k][2][RowKeyField] \in RequestKeys(req[r])

\* C2 as claimed, of the direct service: in score mode with test_mode = true
\* the result has exactly min(3, len(keywords)) items, each with a relevance
\* score in [10,100].
C2_TestModeExactLength ==
  \A r \in DOMAIN req :
    (Answered(req[r]) /\ IsScore(req[r]) /\ req[r].body.test_mode
       /\ req[r].variant = "direct") =>
      LET out == req[r].response.results IN
      /\ Len(out) = Min(TestKeywords, Len(req[r].body.keywords))
      /\ \A k \in 1..Len(out) : ScoreWithin(out[k], ScoreFloor, ScoreCeil)

\* C2 as amended: in score mode with test_mode = true the result has at most
\* min(3, len(keywords)) items; in the direct service it has exactly that many
\* when no candidate reached 80 (the placeholders); every returned relevance
\* score lies in [10,100].
C2_TestModeAtMost ==
  \A r \in DOMAIN req :
    (Answered(req[r]) /\ IsScore(req[r]) /\ req[r].body.test_mode) =>
      LET out == req[r].response.results
          cap == Min(TestKeywords, Len(req[r].body.keywords))
          none80 == \A k \in 1..Len(req[r].raw) :
                      ~ScoreWithin(req[r].raw[k], StrictThreshold, ScoreCeil)
      IN /\ Len(out) <= cap
         /\ (req[r].variant = "direct" /\ none80) => Len(out) = cap
         /\ \A k \in 1..Len(out) : ScoreWithin(out[k], ScoreFloor, ScoreCeil)

\* A test-mode request with more than three keywords answered with fewer than
\* three items, one of them a candidate that reached 80.
C2_Witness ==
  \E r \in DOMAIN req :
    /\ Answered(req[r]) /\ IsScore(req[r]) /\ req[r].body.test_mode
    /\ Len(req[r].body.keywords) > TestKeywords
    /\ Len(req[r].response.results) = 1
    /\ Len(req[r].raw) = TestKeywords

\* C3: in score mode with test_mode = false, every returned item has a score
\* of at least 80, or no candidate reached 80 and every returned item has a
\* score of at least 50; an item below 80 is never returned with one at 80
\* or above.
C3_ThresholdTiers ==
  \A r \in DOMAIN req :
    (Answered(req[r]) /\ IsScore(req[r]) /\ ~req[r].body.test_mode) =>
      LET out == req[r].response.results
          none80 == \A k \in 1..Len(req[r].raw) :
                      ~ScoreWithin(req[r].raw[k], StrictThreshold, ScoreCeil)
      IN \/ \A k \in 1..Len(out) : ScoreWithin(out[k], StrictThreshold, ScoreCeil)
         \/ /\ none80
            /\ \A k \in 1..Len(out) : ScoreWithin(out[k], RelaxedThreshold, ScoreCeil)

\* A response of the relaxed tier: an item scored below 80 is returned, while
\* another candidate scored below 50 is not.
C3_Witness ==
  \E r \in DOMAIN req :
    /\ Answered(req[r]) /\ IsScore(req[r]) /\ ~req[r].body.test_mode
    /\ Len(req[r].raw) > Len(req[r].response.results)
    /\ \E k \in 1..Len(req[r].response.results) :
         ScoreWithin(req[r].response.results[k], RelaxedThreshold, StrictThreshold - 1)

\* The slice, counted from 0, that item j belongs to with slices of bs items.
SliceIndex(j, bs) == (j - 1) \div bs

\* C5: in row mode the items are cut, in input order, into consecutive slices
\* of batch_size items (the last may be shorter), every item that has a task
\* belongs to one slice, and no item of a later slice has a task before every
\* item of the earlier slices has ended.
C5_SlicesInOrder ==
  \A r \in DOMAIN req :
    (RowMode(req[r]) /\ BatchSize(req[r].body) >= 1) =>
      LET q == req[r]
          n == Len(q.body.data)
          bs == BatchSize(q.body)
      IN /\ \A k \in 1..Len(q.slices) :
              q.slices[k] = <<(k - 1) * bs + 1, Min(k * bs, n)>>
         /\ \A j \in DOMAIN q.task :
              q.task[j] # "idle" =>
                Cardinality({k \in 1..Len(q.slices) :
                               j \in q.slices[k][1]..q.slices[k][2]}) = 1
         /\ \A j, k \in DOMAIN q.task :
              (SliceIndex(j, bs) < SliceIndex(k, bs) /\ q.task[k] # "idle")
                => q.task[j] = "done"
         /\ (Done(q) /\ q.slices # <<>>) => q.slices[Len(q.slices)][2] = n

\* Three rows with batch_size 2: the second, shorter slice is running.
C5_Witness ==
  \E r \in DOMAIN req :
    /\ RowMode(req[r]) /\ BatchSize(req[r].body) = 2
    /\ req[r].pc = "gather"
    /\ req[r].slices = << <<1, 2>>, <<3, 3>> >>
    /\ req[r].task[3] = "created"

\* An item fails when its model call raises or its text does not parse.
ItemFails(reply) == reply = Raised \/ ~ParseReply(reply).ok

\* The row object an item yields from its own reply.
ExpectedRow(key, reply) ==
  JDict(WrapNonDict(ParseReply(reply).val)[2] @@ (RowKeyField :> JStr(<<key>>)))

\* The rows of the items from j on that did not fail, in input order.
RECURSIVE ExpectedRows(_, _, _)
ExpectedRows(data, reply, j) ==
  IF j > Len(data) THEN <<>>
  ELSE (IF ItemFails(reply[j]) THEN <<>> ELSE <<ExpectedRow(data[j], reply[j])>>)
       \o ExpectedRows(data, reply, j + 1)

\* C7: an item that fails is left out, alone and with no error: a task ends
\* with no result exactly when its own reply fails (in score mode also when
\* the reply is no object); the rows returned are those each surviving item
\* yields from its own reply; and once a slice has started, row mode never
\* ends in an error.
C7_FailureIsolation ==
  \A r \in DOMAIN req :
    LET q == req[r] IN
    /\ RowMode(q) =>
         /\ \A j \in DOMAIN q.task :
              q.task[j] = "done" => ((q.outs[j] = None) <=> ItemFails(q.reply[j]))
         /\ (Done(q) /\ q.slices # <<>>) =>
              /\ q.results = ExpectedRows(q.body.data, q.reply, 1)
              /\ q.status = 200
    /\ IsScore(q) =>
         \A j \in DOMAIN q.task :
           q.task[j] = "done" =>
             ((q.outs[j] = None) <=>
                (ItemFails(q.reply[j]) \/ ParseReply(q.reply[j]).val[1] # "dict"))

\* Three rows in one slice: the second fails, the first and third are returned.
C7_Witness ==
  \E r \in DOMAIN req :
    /\ Answered(req[r]) /\ RowMode(req[r])
    /\ Len(req[r].body.data) = 3 /\ Len(req[r].slices) = 1
    /\ req[r].outs[1] # None /\ req[r].outs[2] = None /\ req[r].outs[3] # None
    /\ Len(req[r].response.results) = 2

\* C8: whatever the model returns or raises for an item, a request whose
\* items were dispatched ends in a 200 response.
C8_ItemsNeverFailRequest ==
  \A r \in DOMAIN req :
    (Done(req[r]) /\ req[r].slices # <<>>) => req[r].status = 200

\* The body passes the validation of the mode it selects.
ValidForMode(b) ==
  IF ModeOf(b) = KombatMode THEN KombatValid(b) ELSE FreestyleValid(b)

\* C9: a body that fails the shape validation of its mode is answered with
\* 400, before any model call or proxy call.
C9_InvalidShapeIs400 ==
  \A r \in DOMAIN req :
    (Done(req[r]) /\ ModeOf(req[r].body) # <<"raise">>
       /\ ~ValidForMode(req[r].body)) =>
      /\ req[r].status = 400
      /\ req[r].log = <<>>
      /\ req[r].hop = "none"

\* C10: whatever the research call yields, processing goes on to the keyword
\* stage, with the default company object when no object was extracted.
C10_ResearchNeverAborts ==
  \A r \in DOMAIN req :
    (IsScore(req[r]) /\ req[r].research # None) =>
      /\ req[r].company # None
      /\ req[r].company[1] = "dict"
      /\ (req[r].research = Raised \/ ~ParseReply(req[r].research).ok) =>
           req[r].company \in {DefaultCompanyDirect, DefaultCompanyUnified}

\* C4: a JSON object wrapped in a fenced block, with or without the json
\* label and with or without prose around it, is extracted to that object; the
\* bare array [1,2] is extracted to {"output": [1,2]}.
C4_FencedRoundTrip ==
  \A r \in DOMAIN req :
    RowMode(req[r]) =>
      \A j \in DOMAIN req[r].task :
        req[r].task[j] = "done" =>
          /\ \A o \in Objects, pre \in Prologues, lab \in Labels, post \in Epilogues :
               req[r].reply[j] = Text(Fenced(pre, lab, o, post)) =>
                 req[r].outs[j] = <<"pair", req[r].body.data[j], o>>
          /\ req[r].reply[j] = Text(JsonDumps(OneTwo)) =>
               req[r].outs[j] =
                 <<"pair", req[r].body.data[j], JDict(OutputField :> OneTwo)>>

\* C6: across all requests in progress, no more than 8 permits are granted
\* within any window of one second.
C6_GlobalRate ==
  \A t \in 0..horizon :
    Cardinality({k \in 1..Len(grants) : grants[k] >= t /\ grants[k] <= t + Period})
      <= RateLimit

\* The score the model gave for item j, when it gave a number.
GivenScore(q, j) == Get(ParseReply(q.reply[j]).val, RS, None)

\* C11: in every score-mode response the relevance score of every returned
\* item is an integer in [10,100], and a number the model gave as a score is
\* cut to that range and truncated to an integer before the filter sees it.
C11_ScoresClamped ==
  \A r \in DOMAIN req :
    IsScore(req[r]) =>
      LET q == req[r] IN
      /\ Answered(q) =>
           \A k \in 1..Len(q.response.results) :
             ScoreWithin(q.response.results[k], ScoreFloor, ScoreCeil)
      /\ \A j \in DOMAIN q.task :
           (q.task[j] = "done" /\ q.outs[j] # None /\ IsNumber(GivenScore(q, j))) =>
             LET t == Tenths(GivenScore(q, j)) IN
             /\ ScoreWithin(q.outs[j], ScoreFloor, ScoreCeil)
             /\ t < 10 * ScoreFloor => q.outs[j][2][RS] = JInt(ScoreFloor)
             /\ t > 10 * ScoreCeil => q.outs[j][2][RS] = JInt(ScoreCeil)
             /\ (t >= 10 * ScoreFloor /\ t <= 10 * ScoreCeil) =>
                  /\ 10 * q.outs[j][2][RS][2] <= t
                  /\ t < 10 * q.outs[j][2][RS][2] + 10

\* The model scored a keyword 150 and the item is returned with score 100.
C11_Witness ==
  \E r \in DOMAIN req :
    /\ Answered(req[r]) /\ IsScore(req[r])
    /\ Len(req[r].reply) = 1
    /\ req[r].reply[1] = Text(JsonDumps(Scored(JInt(150))))
    /\ Len(req[r].response.results) = 1
    /\ req[r].response.results[1][2][RS] = JInt(ScoreCeil)

\* The candidates the score filter sees, read off the tasks' results.
Survived(q) == SelectSeq(q.outs, LAMBDA o : o # None /\ o # EmptyDict)

\* C12: in both services the score-mode response is the candidates of at
\* least 80 when there are any; else, in test mode, one placeholder of score
\* 90 per keyword taken; else the candidates of at least 50.
C12_TwoTierBothVariants ==
  \A r \in DOMAIN req :
    (Answered(req[r]) /\ IsScore(req[r])) =>
      LET q == req[r]
          cands == Survived(q)
          strict == SelectSeq(cands, LAMBDA o : ScoreWithin(o, StrictThreshold, ScoreCeil))
          relaxed == SelectSeq(cands, LAMBDA o : ScoreWithin(o, RelaxedThreshold, ScoreCeil))
      IN q.response.results =
           IF strict # <<>> THEN strict
           ELSE IF q.body.test_mode
                THEN [k \in 1..Len(q.kws) |-> Placeholder(q.kws[k])]
                ELSE relaxed

\* The row keys a row-mode response returns.
ReturnedKeys(q) ==
  {q.response.results[k][2][RowKeyField] : k \in 1..Len(q.response.results)}

\* C13: two runs of the same row-mode request against a deterministic stub,
\* whatever the order in which their item tasks run, return the same
\* processed_count and the same set of row keys.
C13_SameBookkeeping ==
  \A r1, r2 \in DOMAIN req :
    (/\ req[r1].body = req[r2].body /\ req[r1].variant = req[r2].variant
     /\ RowMode(req[r1]) /\ Answered(req[r1]) /\ Answered(req[r2])) =>
      /\ req[r1].response.processed_count = req[r2].response.processed_count
      /\ ReturnedKeys(req[r1]) = ReturnedKeys(req[r2])

\* Both runs of a three-row request in one slice are answered, with one row
\* dropped by the stub.
C13_Witness ==
  /\ DOMAIN req = {1, 2}
  /\ req[1].body = req[2].body
  /\ RowMode(req[1]) /\ Answered(req[1]) /\ Answered(req[2])
  /\ Len(req[1].body.data) = 3 /\ Len(req[1].slices) = 1
  /\ req[1].response.processed_count = 2

\* Every row's reply parsed as a JSON object.
AllObjects(q) ==
  \A j \in 1..Len(q.body.data) :
    /\ q.reply[j] # None /\ q.reply[j] # Raised
    /\ ParseReply(q.reply[j]).ok /\ ParseReply(q.reply[j]).val[1] = "dict"

\* C14: when the model returns a JSON object for every row, the row-mode
\* response holds one object per input row, in input order: the row's object
\* with row_key set to the row's key; and processed_count is the number of
\* rows.
C14_OneObjectPerRow ==
  \A r \in DOMAIN req :
    (Answered(req[r]) /\ RowMode(req[r]) /\ BatchSize(req[r].body) >= 1
       /\ AllObjects(req[r])) =>
      LET q == req[r]
          n == Len(q.body.data)
      IN /\ Len(q.response.results) = n
         /\ q.response.processed_count = n
         /\ \A j \in 1..n :
              /\ DOMAIN q.response.results[j][2] =
                   DOMAIN ParseReply(q.reply[j]).val[2] \cup {RowKeyField}
              /\ q.response.results[j][2][RowKeyField] = JStr(<<q.body.data[j]>>)
              /\ \A f \in DOMAIN ParseReply(q.reply[j]).val[2] \ {RowKeyField} :
                   q.response.results[j][2][f] = ParseReply(q.reply[j]).val[2][f]

RECURSIVE SumSeq(_)
SumSeq(s) == IF s = <<>> THEN 0 ELSE Head(s) + SumSeq(Tail(s))

\* The model calls a request has made: one for the company research once it
\* was made, and those of its items.
ModelCalls(q) == (IF q.research # None THEN 1 ELSE 0) + SumSeq(q.calls)

RECURSIVE TotalCalls(_)
TotalCalls(rs) ==
  IF rs = {} THEN 0
  ELSE LET r == CHOOSE x \in rs : TRUE IN ModelCalls(req[r]) + TotalCalls(rs \ {r})

C16_StatusPassthrough ==
  \A r \in DOMAIN req :
    (Done(req[r]) /\ req[r].hop = "sibling") => req[r].status = req[r].sibling

\* C17: a reply that parses as JSON always yields a surviving object, the
\* parsed object itself or {"output": value} for any other JSON type, for row
\* items, for keyword items and for the company research.
C17_AlwaysAnObject ==
  \A r \in DOMAIN req :
    LET q == req[r] IN
    /\ \A j \in DOMAIN q.task :
         (q.task[j] = "done" /\ q.reply[j] # Raised /\ ParseReply(q.reply[j]).ok) =>
           LET v == ParseReply(q.reply[j]).val
               o == IF IsScore(q) THEN q.outs[j] ELSE q.outs[j][3]
           IN /\ q.outs[j] # None
              /\ o[1] = "dict"
              /\ v[1] # "dict" => o = JDict(OutputField :> v)
              /\ (v[1] = "dict" /\ ~IsScore(q)) => o = v
    /\ (IsScore(q) /\ q.research # None /\ q.research # Raised
          /\ ParseReply(q.research).ok) =>
         /\ q.company # None
         /\ q.company[1] = "dict"

\* The item tasks of a request that have started and have not ended.
Running(q) == {j \in DOMAIN q.task : q.task[j] \in {"created", "sleeping"}}

\* C18: the item tasks of a row-mode request that have started and not ended
\* are at most batch_size, those of a score-mode request at most the keywords
\* taken, and the orchestrator is past the wait for a slice (at the loop head
\* or returned) only when no task is running.
C18_PeakConcurrency ==
  \A r \in DOMAIN req :
    LET q == req[r] IN
    /\ (RowMode(q) /\ BatchSize(q.body) >= 1) =>
         Cardinality(Running(q)) <= BatchSize(q.body)
    /\ IsScore(q) =>
         Cardinality(Running(q)) <= Len(TakeKeywords(q.body.keywords, q.body.test_mode))
    /\ q.pc \in {"loop", "done"} => Running(q) = {}

\* Three rows with batch_size 2: both tasks of the first slice are running
\* and the third row has no task yet.
C18_Witness ==
  \E r \in DOMAIN req :
    /\ RowMode(req[r]) /\ BatchSize(req[r].body) = 2
    /\ Len(req[r].body.data) = 3
    /\ Running(req[r]) = {1, 2}
    /\ req[r].task[3] = "idle"

\* The fields of a response body.
FieldsOf(body) == DOMAIN body \ {"shape"}

Survivors(outs) == SelectSeq([j \in 1..Len(outs) |-> j], LAMBDA j : outs[j] # None)

\* C20: whatever the order in which the item tasks ended and whichever items
\* were dropped, the rows of a row-mode response are those of the surviving
\* items in input order.
C20_InputOrder ==
  \A r \in DOMAIN req :
    (Answered(req[r]) /\ RowMode(req[r])) =>
      LET q == req[r]
          alive == Survivors(q.outs)
      IN /\ Len(q.response.results) = Len(alive)
         /\ \A k \in 1..Len(alive) :
              q.response.results[k] = RowResult(q.outs[alive[k]])

\* Three rows in slices of two: the first row was dropped, and the second and
\* third are returned in that order.
C20_Witness ==
  \E r \in DOMAIN req :
    /\ Answered(req[r]) /\ RowMode(req[r])
    /\ Len(req[r].body.data) = 3 /\ BatchSize(req[r].body) = 2
    /\ req[r].outs[1] = None
    /\ Len(req[r].response.results) = 2
    /\ req[r].response.results[1][2][RowKeyField] = JStr(<<RowKeyOf[2]>>)
    /\ req[r].response.results[2][2][RowKeyField] = JStr(<<RowKeyOf[3]>>)

\* The model returned no text.
EmptyReply == Text(<<>>)

\* C21 as claimed: a row whose reply is empty survives as the empty object,
\* is returned holding only row_key and is counted; in score mode the empty
\* reply yields the empty object, which is no candidate.
C21_EmptyReplyEmptyObject ==
  \A r \in DOMAIN req :
    LET q == req[r] IN
    \A j \in DOMAIN q.task :
      (q.task[j] = "done" /\ q.reply[j] = EmptyReply) =>
        /\ RowMode(q) =>
             /\ q.outs[j] = <<"pair", q.body.data[j], EmptyDict>>
             /\ Answered(q) =>
                  \E k \in 1..Len(q.response.results) :
                    q.response.results[k] = JDict(RowKeyField :> JStr(<<q.body.data[j]>>))
        /\ IsScore(q) =>
             /\ q.outs[j] = EmptyDict
             /\ Done(q) => \A k \in 1..Len(q.raw) : q.raw[k] # q.outs[j]

\* C21 as amended: the row-mode half as claimed, with processed_count
\* counting the row; in score mode the empty reply yields the empty object in
\* the proxying service, which is no candidate, and the object holding only
\* RelevanceScore 10 in the direct service, which is a candidate below both
\* thresholds; in neither service is the item returned.
C21_EmptyReplySurvives ==
  \A r \in DOMAIN req :
    LET q == req[r] IN
    \A j \in DOMAIN q.task :
      (q.task[j] = "done" /\ q.reply[j] = EmptyReply) =>
        /\ RowMode(q) =>
             /\ q.outs[j] = <<"pair", q.body.data[j], EmptyDict>>
             /\ Answered(q) =>
                  /\ \E k \in 1..Len(q.response.results) :
                       q.response.results[k] = JDict(RowKeyField :> JStr(<<q.body.data[j]>>))
                  /\ q.response.processed_count >= 1
        /\ IsScore(q) =>
             /\ q.variant = "unified" =>
                  /\ q.outs[j] = EmptyDict
                  /\ Done(q) => \A k \in 1..Len(q.raw) : q.raw[k] # q.outs[j]
             /\ q.variant = "direct" =>
                  /\ q.outs[j] = JDict(RS :> JInt(ScoreFloor))
                  /\ Done(q) => \E k \in 1..Len(q.raw) : q.raw[k] = q.outs[j]
             /\ Answered(q) =>
                  \A k \in 1..Len(q.response.results) :
                    q.response.results[k] # q.outs[j]

\* A one-row request whose reply was empty is answered with the row counted.
C21_Witness ==
  \E r \in DOMAIN req :
    /\ Answered(req[r]) /\ RowMode(req[r])
    /\ Len(req[r].body.data) = 1
    /\ req[r].reply[1] = EmptyReply
    /\ req[r].response.processed_count = 1
    /\ req[r].response.results = <<JDict(RowKeyField :> JStr(<<RowKeyOf[1]>>))>>

\* The request made no model call.
NoModelCall(q) == q.log = <<>> /\ \A j \in DOMAIN q.calls : q.calls[j] = 0

\* The service that processes the rows has taken the request: the direct
\* service its own, the sibling the one forwarded to it.
Processed(q) == q.variant = "direct" \/ (q.hop = "sibling" /\ q.sibling \notin PlatformErrors)

\* C22: a well-formed row-mode request with a negative batch_size makes no
\* model call and, processed, is answered 200 with success, processed_count 0
\* and total_count the number of rows; with batch_size 0 it makes no model
\* call and ends in 500; in neither case is 400 answered.
C22_BatchSizeNotValidated ==
  \A r \in DOMAIN req :
    LET q == req[r] IN
    (RowMode(q) /\ FreestyleRequired \subseteq q.body.present /\ q.body.illtyped = {}
       /\ BatchSize(q.body) <= 0) =>
      /\ NoModelCall(q)
      /\ Done(q) => q.status # 400
      /\ (Done(q) /\ BatchSize(q.body) = 0) => q.status = 500
      /\ (Done(q) /\ BatchSize(q.body) < 0 /\ Processed(q)) =>
           /\ q.status = 200
           /\ q.response.success
           /\ q.response.results = <<>>
           /\ q.response.processed_count = 0
           /\ q.response.total_count = Len(q.body.data)

\* Three rows with batch_size -1, answered 200 with no row processed.
C22_Witness ==
  \E r \in DOMAIN req :
    /\ Answered(req[r]) /\ RowMode(req[r])
    /\ BatchSize(req[r].body) < 0
    /\ req[r].response.total_count = 3
    /\ req[r].response.processed_count = 0

====
